---- MODULE Spec2Model ----
(***************************************************************************)
(* The rootfs builder of puzzlefs (builder/src/lib.rs): one walk of a host *)
(* tree, hard-link detection, content-defined chunk attribution and the   *)
(* layout of the metadata blob.                                            *)
(***************************************************************************)
EXTENDS Integers, Sequences, FiniteSets, TLC

\* ------------------------------------------------------------------ bounds
MaxEntries == 2    \* entries of the host tree below the walk root
MaxNames == 2      \* distinct file names a directory can hold
MaxBytes == 4      \* total content bytes over all regular files
MaxXattr == 1      \* host inodes that carry extended metadata

\* ------------------------------------------------------- sequence helpers
RECURSIVE Flatten(_)
Flatten(ss) == IF ss = <<>> THEN <<>> ELSE Head(ss) \o Flatten(Tail(ss))

RECURSIVE SumSeq(_)
SumSeq(s) == IF s = <<>> THEN 0 ELSE Head(s) + SumSeq(Tail(s))

Range(s) == {s[i] : i \in DOMAIN s}

\* ---------------------------------------------------- the host file system
\* A path is the sequence of its components below the walk root; a file
\* name is one component (names compare as their integers do).
Names == 1..MaxNames
Root == <<>>
Parent(p) == SubSeq(p, 1, Len(p) - 1)
FileName(p) == p[Len(p)]

RECURSIVE PathCode(_)
PathCode(p) == IF p = <<>> THEN 0 ELSE PathCode(Parent(p)) * (MaxNames + 1) + FileName(p)

\* The sets of at most n paths that are closed under Parent. Names matter
\* to the builder through their order only, so the k entries of a directory
\* are named 1..k.
RECURSIVE Shapes(_)
Shapes(n) ==
    IF n = 0 THEN {{}}
    ELSE LET S == Shapes(n - 1)
         IN  S \cup UNION {{s \cup {Append(x[1], x[2])} :
                               x \in {y \in (s \cup {Root}) \X Names :
                                         y[2] = 1 \/ Append(y[1], y[2] - 1) \in s}} : s \in S}

\* What one path of the tree is: a directory, a regular file of len bytes,
\* another entity (symlink, device, fifo, socket), or one more link to the
\* inode of the earlier path link (link = Root: an inode of its own).
NodeVals(s) ==
    {[kind |-> "dir", len |-> 0, link |-> Root], [kind |-> "other", len |-> 0, link |-> Root]}
    \cup {[kind |-> "file", len |-> n, link |-> Root] : n \in 0..MaxBytes}
    \cup {[kind |-> "link", len |-> 0, link |-> q] : q \in s}

\* Paths in the order of a depth-first walk sorted by name.
RECURSIVE PathLess(_, _)
PathLess(p, q) ==
    IF p = <<>> THEN q # <<>>
    ELSE IF q = <<>> THEN FALSE
    ELSE IF Head(p) # Head(q) THEN Head(p) < Head(q)
    ELSE PathLess(Tail(p), Tail(q))

RECURSIVE TotalLen(_, _)
TotalLen(s, node) ==
    IF s = {} THEN 0
    ELSE LET p == CHOOSE q \in s : TRUE IN node[p].len + TotalLen(s \ {p}, node)

ValidTree(s, node) ==
    /\ \A p \in s : Len(p) > 1 => node[Parent(p)].kind = "dir"
    /\ \A p \in s : node[p].kind = "link" =>
          /\ PathLess(node[p].link, p)
          /\ node[node[p].link].kind \in {"file", "other"}
    /\ TotalLen(s, node) <= MaxBytes

\* The host inode of the path p (md.ino()): hard links share the inode of
\* the path they link to.
HostIno(node, p) ==
    IF p # Root /\ node[p].kind = "link" THEN 1 + PathCode(node[p].link) ELSE 1 + PathCode(p)

\* The host file system as the builder reads it: ino is st_ino of each path,
\* kind and len are the file type and st_size of each host inode, xattr the
\* host inodes for which InodeAdditional::new returns Some (directories and
\* regular files only: the builder passes None for every other entity).
MakeFs(s, node, xattr) ==
    LET paths == s \cup {Root}
        rep(p) == IF p # Root /\ node[p].kind = "link" THEN node[p].link ELSE p
        inos == {HostIno(node, p) : p \in paths}
        pathOf(h) == CHOOSE p \in paths : rep(p) = p /\ HostIno(node, p) = h
    IN  [ino   |-> [p \in paths |-> HostIno(node, p)],
         kind  |-> [h \in inos |-> IF pathOf(h) = Root THEN "dir" ELSE node[pathOf(h)].kind],
         len   |-> [h \in inos |-> IF pathOf(h) = Root THEN 0 ELSE node[pathOf(h)].len],
         xattr |-> xattr]

\* The content of the regular file with host inode h: every byte of the
\* tree is different from every other, so a byte range read at a wrong place
\* never equals the right one.
Content(fs_, h) == [i \in 1..fs_.len[h] |-> h * (MaxBytes + 1) + i]

\* --------------------------------------------------------------- walker
Children(fs_, p) == {q \in DOMAIN fs_.ino : q # Root /\ Parent(q) = p}

\* sort_by(|a, b| a.file_name().cmp(b.file_name()))
SortByFileName(S) ==
    CHOOSE f \in [1..Cardinality(S) -> S] :
        \A a, b \in 1..Cardinality(S) : a < b => FileName(f[a]) < FileName(f[b])

\* A directory's entries in the opposite order (what read_dir may return
\* when the sort is left out).
SortByFileNameDesc(S) ==
    CHOOSE f \in [1..Cardinality(S) -> S] :
        \A a, b \in 1..Cardinality(S) : a < b => FileName(f[a]) > FileName(f[b])

RECURSIVE WalkFrom(_, _)
WalkFrom(fs_, p) ==
    <<p>> \o (IF fs_.kind[fs_.ino[p]] = "dir"
              THEN LET sorted == SortByFileName(Children(fs_, p))
                   IN  Flatten([i \in 1..Len(sorted) |-> WalkFrom(fs_, sorted[i])])
              ELSE <<>>)

RECURSIVE WalkFromUnsorted(_, _)
WalkFromUnsorted(fs_, p) ==
    <<p>> \o (IF fs_.kind[fs_.ino[p]] = "dir"
              THEN LET sorted == SortByFileNameDesc(Children(fs_, p))
                   IN  Flatten([i \in 1..Len(sorted) |-> WalkFromUnsorted(fs_, sorted[i])])
              ELSE <<>>)

walker_unsorted(fs_) == WalkFromUnsorted(fs_, Root)

\* The entries WalkDir yields: directories before their contents, depth
\* first, each directory's entries by file name.
walker(fs_) == WalkFrom(fs_, Root)

\* e.metadata() / fs::symlink_metadata(p)
Metadata(fs_, p) ==
    [ino |-> fs_.ino[p], kind |-> fs_.kind[fs_.ino[p]], len |-> fs_.len[fs_.ino[p]]]

\* InodeAdditional::new(path, md): None (<<>>) or Some (<<x>>)
InodeAdditionalNew(fs_, md) == IF md.ino \in fs_.xattr THEN <<[xattrs_of |-> md.ino]>> ELSE <<>>

\* ------------------------------------------------- the blob store (oci)
\* The digest of a blob: a collision-free content address.
Digest(data) == data

\* Image::put_blob: stores data (once) and returns its descriptor.
PutBlob(store, data) ==
    [store |-> IF \E i \in DOMAIN store : store[i] = data THEN store ELSE Append(store, data),
     desc  |-> [digest |-> Digest(data), len |-> Len(data)]]

HasBlob(store, digest) == \E i \in DOMAIN store : Digest(store[i]) = digest
OpenBlob(store, digest) == store[CHOOSE i \in DOMAIN store : Digest(store[i]) = digest]

\* ------------------------------------------- the chunker (FastCDCWrapper)
\* buf: the bytes written and not yet part of a completed chunk.
FastCDCWrapperNew == [buf |-> <<>>, pending_chunks |-> <<>>]

RECURSIVE SortedSeq(_)
SortedSeq(P) ==
    IF P = {} THEN <<>>
    ELSE LET m == CHOOSE x \in P : \A y \in P : x <= y IN <<m>> \o SortedSeq(P \ {m})

\* The chunks of buf that end after the bytes at the positions P, and what
\* follows the last of them.
ChunksAt(buf, P) ==
    LET c == SortedSeq(P)
    IN  [k \in 1..Len(c) |-> SubSeq(buf, IF k = 1 THEN 1 ELSE c[k - 1] + 1, c[k])]

RestAt(buf, P) ==
    LET c == SortedSeq(P)
    IN  IF c = <<>> THEN buf ELSE SubSeq(buf, c[Len(c)] + 1, Len(buf))

\* The boundaries a write of data may complete: the rolling hash decides,
\* anywhere in the bytes buffered so far; a write of nothing completes none.
WriteCuts(f, data) == IF data = <<>> THEN {{}} ELSE SUBSET (1..Len(f.buf \o data))

\* io::Write for FastCDCWrapper, completing the chunks that end at P
FcdcWrite(f, data, P) ==
    [buf |-> RestAt(f.buf \o data, P),
     pending_chunks |-> f.pending_chunks \o ChunksAt(f.buf \o data, P)]

\* The boundaries finish() may choose: the last chunk ends the buffer.
FinishCuts(f) ==
    IF f.buf = <<>> THEN {{}}
    ELSE {P \cup {Len(f.buf)} : P \in SUBSET (1..(Len(f.buf) - 1))}

\* FastCDCWrapper::finish, cutting at P
FcdcFinish(f, P) ==
    [buf |-> <<>>, pending_chunks |-> f.pending_chunks \o ChunksAt(f.buf, P)]

\* --------------------------------------------------------------- builder
\* write_chunks_to_oci: drains the completed chunks, stores each, and
\* returns their FileChunks.
RECURSIVE PutAll(_, _)
PutAll(store, chunks) ==
    IF chunks = <<>> THEN store ELSE PutAll(PutBlob(store, Head(chunks)).store, Tail(chunks))

write_chunks_first_only(store, f) ==
    [oci    |-> IF f.pending_chunks = <<>> THEN store
                ELSE PutBlob(store, Head(f.pending_chunks)).store,
     fcdc   |-> [f EXCEPT !.pending_chunks = <<>>],
     chunks |-> [k \in 1..Len(f.pending_chunks) |->
                   [blob |-> [kind |-> "Other", digest |-> Digest(f.pending_chunks[k]),
                              offset |-> 0],
                    len  |-> Len(f.pending_chunks[k])]]]

write_chunks_to_oci(store, f) ==
    [oci    |-> PutAll(store, f.pending_chunks),
     fcdc   |-> [f EXCEPT !.pending_chunks = <<>>],
     chunks |-> [k \in 1..Len(f.pending_chunks) |->
                   LET desc == PutBlob(store, f.pending_chunks[k]).desc
                   IN  [blob |-> [kind |-> "Other", digest |-> desc.digest, offset |-> 0],
                        len  |-> desc.len]]]

\* merge_chunk_and_prev_files: every pending file gets one chunk into the
\* first chunk's blob, at the offset the files before it used up, and moves
\* to files; the BlobRef returned points behind them.
merge_chunk_and_prev_files(first_chunk, files_, prev_) ==
    LET first_digest == first_chunk.blob.digest
        used(i) == SumSeq([j \in 1..(i - 1) |-> prev_[j].md.len])
        drained == [i \in 1..Len(prev_) |->
                      [prev_[i] EXCEPT !.chunk_list =
                          Append(@, [blob |-> [kind |-> "Other", digest |-> first_digest,
                                               offset |-> used(i)],
                                     len  |-> prev_[i].md.len])]]
    IN  [ok         |-> first_chunk.blob.kind = "Other",
         files      |-> files_ \o drained,
         prev_files |-> <<>>,
         blob       |-> [kind |-> "Other", digest |-> first_digest,
                         offset |-> used(Len(prev_) + 1)]]

\* Dir::add_entry
add_entry(d, p, ino) == [d EXCEPT !.dir_list = Append(@, [name |-> FileName(p), ino |-> ino])]

\* HashMap::insert
Insert(m, k, v) == [x \in DOMAIN m \cup {k} |-> IF x = k THEN v ELSE m[x]]

\* --------------------------------------------------- the wire encoding
\* A CBOR array header: the count in the initial byte below 24, else in
\* one or two bytes that follow it.
CborListHeader(n) ==
    IF n < 24 THEN <<128 + n>>
    ELSE IF n < 256 THEN <<152, n>>
    ELSE <<153, n \div 256, n % 256>>

\* format::cbor_size_of_list_header
cbor_size_of_list_header(n) == IF n < 24 THEN 1 ELSE IF n < 256 THEN 2 ELSE 3

\* format::INODE_WIRE_SIZE: every Inode serializes to this many bytes
INODE_WIRE_SIZE == 5

ModeTag(mode) == IF mode = "Dir" THEN 1 ELSE IF mode = "Reg" THEN 2 ELSE 3

\* The fixed-width record of one Inode: ino, mode, payload offset, and the
\* optional reference to its extended metadata.
CborInode(i) ==
    <<i.ino, ModeTag(i.mode), i.offset,
      IF i.additional = <<>> THEN 0 ELSE 1,
      IF i.additional = <<>> THEN 0 ELSE i.additional[1].offset>>

CborInodes(inodes) ==
    CborListHeader(Len(inodes)) \o Flatten([k \in 1..Len(inodes) |-> CborInode(inodes[k])])

\* serde_cbor::to_writer of a directory's entry list
CborDirList(dl) ==
    CborListHeader(Len(dl)) \o Flatten([k \in 1..Len(dl) |-> <<dl[k].name, dl[k].ino>>])

\* serde_cbor::to_writer of a FileChunkList: each chunk is the digest (a
\* byte string with its length), the offset and the length
CborChunkList(cl) ==
    CborListHeader(Len(cl)) \o
    Flatten([k \in 1..Len(cl) |->
               <<Len(cl[k].blob.digest)>> \o cl[k].blob.digest \o <<cl[k].blob.offset, cl[k].len>>])

\* serde_cbor::to_writer of an InodeAdditional
CborAdditional(a) == <<161, a.xattrs_of>>

\* Inode::new_dir, Inode::new_file, Inode::new_other
InodeNewDir(ino, md, dir_list_offset, additional) ==
    [ino |-> ino, mode |-> "Dir", offset |-> dir_list_offset, additional |-> additional]

InodeNewFile(ino, md, chunk_offset, additional) ==
    [ino |-> ino, mode |-> "Reg", offset |-> chunk_offset, additional |-> additional]

InodeNewOther(ino, md, additional) ==
    [ino |-> ino, mode |-> "Other", offset |-> 0, additional |-> additional]

\* ---------------------------------------------------------------- layout
inode_encoded_size(num_inodes) ==
    cbor_size_of_list_header(num_inodes) + num_inodes * INODE_WIRE_SIZE

NumInodesNoOthers(pfs, ds, fl) == Cardinality(DOMAIN ds) + Len(fl)

\* num_inodes = pfs_inodes.len() + dirs.len() + files.len()
NumInodes(pfs, ds, fl) == Len(pfs) + Cardinality(DOMAIN ds) + Len(fl)

\* dirs.values() sorted by ino
OrderedDirs(ds) ==
    LET inos == SortedSeq({ds[h].ino : h \in DOMAIN ds})
    IN  [i \in 1..Len(inos) |-> ds[CHOOSE h \in DOMAIN ds : ds[h].ino = inos[i]]]

\* dirent_offset = inodes_serial_size + dir_buf.len()
DirentOffset(size, buf) == size + Len(buf)

ChunkOffsetNoDirs(size, dbuf, fbuf) == size + Len(fbuf)

\* chunk_offset = inodes_serial_size + dir_buf.len() + files_buf.len()
ChunkOffset(size, dbuf, fbuf) == size + Len(dbuf) + Len(fbuf)

\* render dirs: each directory's entry list, then its extended metadata
RECURSIVE RenderDirList(_, _, _)
RenderDirList(ordered, size, buf) ==
    IF ordered = <<>> THEN [buf |-> buf, inodes |-> <<>>]
    ELSE LET d == Head(ordered)
             dirent_offset == DirentOffset(size, buf)
             buf1 == buf \o CborDirList(d.dir_list)
             additional_ref ==
                 IF d.additional = <<>> THEN <<>>
                 ELSE <<[offset |-> size + Len(buf1), kind |-> "Local"]>>
             buf2 == IF d.additional = <<>> THEN buf1
                     ELSE buf1 \o CborAdditional(d.additional[1])
             rest == RenderDirList(Tail(ordered), size, buf2)
         IN  [buf    |-> rest.buf,
              inodes |-> <<InodeNewDir(d.ino, d.md, dirent_offset, additional_ref)>>
                         \o rest.inodes]

\* render files: each file's chunk list, then its extended metadata
RECURSIVE RenderFileList(_, _, _, _)
RenderFileList(fl, size, dbuf, buf) ==
    IF fl = <<>> THEN [buf |-> buf, inodes |-> <<>>]
    ELSE LET f == Head(fl)
             chunk_offset == ChunkOffset(size, dbuf, buf)
             buf1 == buf \o CborChunkList(f.chunk_list)
             additional_ref ==
                 IF f.additional = <<>> THEN <<>>
                 ELSE <<[offset |-> size + Len(dbuf) + Len(buf1), kind |-> "Local"]>>
             buf2 == IF f.additional = <<>> THEN buf1
                     ELSE buf1 \o CborAdditional(f.additional[1])
             rest == RenderFileList(Tail(fl), size, dbuf, buf2)
         IN  [buf    |-> rest.buf,
              inodes |-> <<InodeNewFile(f.ino, f.md, chunk_offset, additional_ref)>>
                         \o rest.inodes]

\* ----------------------------------------------------------------- state
VARIABLES
    fs,                 \* the host tree (never changes during a build)
    walk,               \* the entries walker(rootfs) yields
    pos,                \* how many of them the loop has taken
    pc,                 \* "walk", "layout", "done", "panic", "error"
    dirs,               \* host inode -> Dir
    files,              \* finalized Files
    pfs_inodes,         \* Inode records
    host_to_pfs,        \* host inode -> Ino
    cur_ino,
    fcdc,               \* the chunker
    prev_files,         \* Files streamed with no chunk completed since
    dropped,            \* the Files that went out of scope at the end of the loop body
    oci,                \* the blobs of the store, in the order they were put
    reads,              \* host inodes whose content was copied into the chunker
    inodes_serial_size,
    md_buf,             \* the metadata blob
    rootfs              \* the Rootfs returned (<<>> until then)

vars == <<fs, walk, pos, pc, dirs, files, pfs_inodes, host_to_pfs, cur_ino, fcdc,
          prev_files, dropped, oci, reads, inodes_serial_size, md_buf, rootfs>>

layout_vars == <<inodes_serial_size, md_buf, rootfs>>

Init ==
    /\ \E s \in Shapes(MaxEntries) :
         \E node \in [s -> NodeVals(s)] :
           /\ ValidTree(s, node)
           /\ \E x \in SUBSET {HostIno(node, p) : p \in {q \in s \cup {Root} :
                                                 q = Root \/ node[q].kind \in {"dir", "file"}}} :
                /\ Cardinality(x) <= MaxXattr
                /\ fs = MakeFs(s, node, x)
    /\ walk = walker(fs)
    /\ pos = 0
    /\ pc = "walk"
    /\ dirs = <<>>
    /\ files = <<>>
    /\ pfs_inodes = <<>>
    /\ host_to_pfs = <<>>
    /\ cur_ino = 1
    /\ fcdc = FastCDCWrapperNew
    /\ prev_files = <<>>
    /\ dropped = <<>>
    /\ oci = <<>>
    /\ reads = <<>>
    /\ inodes_serial_size = 0
    /\ md_buf = <<>>
    /\ rootfs = <<>>

\* ------------------------------------------------------- the walk (171-253)
Entry == walk[pos + 1]
Md == Metadata(fs, Entry)

IsHardLinkNever(map, md) == FALSE

\* host_to_pfs.get(&md.ino()).is_some()
IsHardLink(map, md) == md.ino \in DOMAIN map

TheInoFresh == cur_ino

\* host_to_pfs.get(&md.ino()).copied().unwrap_or(cur_ino)
TheIno == IF Md.ino \in DOMAIN host_to_pfs THEN host_to_pfs[Md.ino] ELSE cur_ino

ParentIno == fs.ino[Parent(Entry)]

\* dirs after the entry is put in its parent directory (177-196)
LinkedDirs ==
    IF cur_ino # 1
    THEN [dirs EXCEPT ![ParentIno] = add_entry(@, Entry, TheIno)]
    ELSE dirs

InLoop == pc = "walk" /\ pos < Len(walk)

\* the lookup of the parent's Dir succeeds
ParentFound == cur_ino = 1 \/ ParentIno \in DOMAIN dirs

\* the entry is rendered: it is the root, or no hard link to something seen
Rendered == InLoop /\ ParentFound /\ (cur_ino = 1 \/ ~IsHardLink(host_to_pfs, Md))

NextInoSkip(ino) == ino + 2

\* cur_ino += 1
NextIno(ino) == ino + 1

\* a hard link to an inode already rendered: only the directory entry
VisitHardLink ==
    /\ InLoop /\ ParentFound
    /\ cur_ino # 1
    /\ IsHardLink(host_to_pfs, Md)
    /\ dirs' = LinkedDirs
    /\ pos' = pos + 1
    /\ UNCHANGED <<fs, walk, pc, files, pfs_inodes, host_to_pfs, cur_ino, fcdc, prev_files,
                   dropped, oci, reads, layout_vars>>

VisitDir ==
    /\ Rendered
    /\ Md.kind = "dir"
    /\ host_to_pfs' = Insert(host_to_pfs, Md.ino, cur_ino)
    /\ dirs' = Insert(LinkedDirs, Md.ino,
                      [ino |-> cur_ino, md |-> Md, dir_list |-> <<>>,
                       additional |-> InodeAdditionalNew(fs, Md)])
    /\ cur_ino' = NextIno(cur_ino)
    /\ pos' = pos + 1
    /\ UNCHANGED <<fs, walk, pc, files, pfs_inodes, fcdc, prev_files, dropped, oci, reads,
                   layout_vars>>

VisitOther ==
    /\ Rendered
    /\ Md.kind = "other"
    /\ host_to_pfs' = Insert(host_to_pfs, Md.ino, cur_ino)
    /\ dirs' = LinkedDirs
    /\ pfs_inodes' = Append(pfs_inodes, InodeNewOther(cur_ino, Md, <<>>))
    /\ cur_ino' = NextIno(cur_ino)
    /\ pos' = pos + 1
    /\ UNCHANGED <<fs, walk, pc, files, fcdc, prev_files, dropped, oci, reads, layout_vars>>

\* first_chunk.len - fixed_blob.offset in u64. A negative result stands for
\* the wrapped value 2^64 + (a - b) of a build without overflow checks.
U64Sub(a, b) == a - b

Wrapped(fl) == \E i \in DOMAIN fl : \E k \in DOMAIN fl[i].chunk_list : fl[i].chunk_list[k].len < 0

\* a regular file: its bytes go through the chunker (217-246)
VisitFile ==
    /\ Rendered
    /\ Md.kind = "file"
    /\ \E P \in WriteCuts(fcdc, Content(fs, Md.ino)), overflow_checks \in BOOLEAN :
         LET w == write_chunks_to_oci(oci, FcdcWrite(fcdc, Content(fs, Md.ino), P))
             written_chunks == w.chunks
             file == [ino |-> cur_ino, md |-> Md, chunk_list |-> <<>>,
                      additional |-> InodeAdditionalNew(fs, Md)]
             first_chunk == Head(written_chunks)
             m == merge_chunk_and_prev_files(first_chunk, files, prev_files)
             underflow == first_chunk.len < m.blob.offset
             chunk_list == <<[len  |-> U64Sub(first_chunk.len, m.blob.offset),
                              blob |-> m.blob]>> \o Tail(written_chunks)
         IN  /\ host_to_pfs' = Insert(host_to_pfs, Md.ino, cur_ino)
             /\ dirs' = LinkedDirs
             /\ reads' = Append(reads, Md.ino)
             /\ fcdc' = w.fcdc
             /\ oci' = w.oci
             /\ IF written_chunks = <<>>
                THEN /\ prev_files' = Append(prev_files, file)
                     /\ cur_ino' = NextIno(cur_ino)
                     /\ pos' = pos + 1
                     /\ UNCHANGED <<files, dropped, pc>>
                ELSE IF ~m.ok
                THEN /\ pc' = "error"
                     /\ UNCHANGED <<files, prev_files, dropped, cur_ino, pos>>
                ELSE /\ files' = m.files
                     /\ prev_files' = m.prev_files
                     /\ IF underflow /\ overflow_checks /\ ~Wrapped(dropped)
                        THEN /\ pc' = "panic"
                             /\ UNCHANGED <<dropped, cur_ino, pos>>
                        ELSE /\ dropped' = Append(dropped, [file EXCEPT !.chunk_list = chunk_list])
                             /\ cur_ino' = NextIno(cur_ino)
                             /\ pos' = pos + 1
                             /\ pc' = pc
    /\ UNCHANGED <<fs, walk, pfs_inodes, layout_vars>>

\* ------------------------------------------- the end of the walk (255-268)
Finish ==
    /\ pc = "walk" /\ pos = Len(walk)
    /\ \E P \in FinishCuts(fcdc) :
         LET w == write_chunks_to_oci(oci, FcdcFinish(fcdc, P))
             written_chunks == w.chunks
             leftover == SumSeq([k \in 1..Len(written_chunks) |-> written_chunks[k].len])
             m == merge_chunk_and_prev_files(Head(written_chunks), files, prev_files)
         IN  /\ fcdc' = w.fcdc
             /\ oci' = w.oci
             /\ IF ~(written_chunks = <<>> \/ prev_files # <<>>)
                   \/ ~(written_chunks # <<>> \/ prev_files = <<>>)
                THEN pc' = "panic" /\ UNCHANGED <<files, prev_files>>
                ELSE IF written_chunks = <<>>
                THEN pc' = "layout" /\ UNCHANGED <<files, prev_files>>
                ELSE IF ~m.ok
                THEN pc' = "error" /\ UNCHANGED <<files, prev_files>>
                ELSE /\ files' = m.files
                     /\ prev_files' = m.prev_files
                     /\ pc' = IF leftover = m.blob.offset THEN "layout" ELSE "panic"
    /\ UNCHANGED <<fs, walk, pos, dirs, pfs_inodes, host_to_pfs, cur_ino, dropped, reads,
                   layout_vars>>

\* ------------------------------------------------------ layout (270-361)
\* The directories and the files are rendered behind the place of the inode
\* table, the table is serialized, and the whole is put as one blob.
Layout ==
    /\ pc = "layout"
    /\ LET size == inode_encoded_size(NumInodes(pfs_inodes, dirs, files))
           rd == RenderDirList(OrderedDirs(dirs), size, <<>>)
           rf == RenderFileList(files, size, rd.buf, <<>>)
           inodes == pfs_inodes \o rd.inodes \o rf.inodes
           table == CborInodes(inodes)
           blob == table \o rd.buf \o rf.buf
           put == PutBlob(oci, blob)
       IN  /\ inodes_serial_size' = size
           /\ pfs_inodes' = inodes
           /\ files' = <<>>
           /\ IF Len(table) # size
              THEN /\ md_buf' = table
                   /\ pc' = "panic"
                   /\ UNCHANGED <<oci, rootfs>>
              ELSE /\ md_buf' = blob
                   /\ oci' = put.store
                   /\ rootfs' = <<[metadatas |-> <<[offset |-> 0, kind |-> "Other",
                                                    digest |-> put.desc.digest]>>]>>
                   /\ pc' = "done"
    /\ UNCHANGED <<fs, walk, pos, dirs, host_to_pfs, cur_ino, fcdc, prev_files, dropped,
                   reads>>

\* ------------------------------------------------------- error returns
\* Every fallible call of build_initial_rootfs is followed by `?`: its
\* error is returned at once and the locals are destroyed. The actions
\* below leave the locals as the failing step found them; what outlives the
\* call is the store.

\* An error before the entry's content reaches the store: the walker's
\* entry or its metadata (172-173), no parent path or no Dir of the parent
\* (181-194), no file name (195, 74-76), InodeAdditional::new (206), open
\* and copy (218-219), Inode::new_other (248).
FailEntry ==
    /\ InLoop
    /\ pc' = "error"
    /\ UNCHANGED <<fs, walk, pos, dirs, files, pfs_inodes, host_to_pfs, cur_ino, fcdc,
                   prev_files, dropped, oci, reads, layout_vars>>

\* put_blob fails on the k-th chunk of a batch (99): the chunks before it
\* are in the store, and write_chunks_to_oci returns the error (221, 257).
FailWriteChunks ==
    /\ pc = "walk"
    /\ \/ /\ Rendered /\ Md.kind = "file"
          /\ \E P \in WriteCuts(fcdc, Content(fs, Md.ino)) :
               LET batch == FcdcWrite(fcdc, Content(fs, Md.ino), P).pending_chunks
               IN  \E k \in 1..Len(batch) : oci' = PutAll(oci, SubSeq(batch, 1, k - 1))
       \/ /\ pos = Len(walk)
          /\ \E P \in FinishCuts(fcdc) :
               LET batch == FcdcFinish(fcdc, P).pending_chunks
               IN  \E k \in 1..Len(batch) : oci' = PutAll(oci, SubSeq(batch, 1, k - 1))
    /\ pc' = "error"
    /\ UNCHANGED <<fs, walk, pos, dirs, files, pfs_inodes, host_to_pfs, cur_ino, fcdc,
                   prev_files, dropped, reads, layout_vars>>

FailLayoutStored ==
    /\ pc = "layout"
    /\ oci' = PutBlob(oci, CborInodes(pfs_inodes)).store
    /\ pc' = "error"
    /\ UNCHANGED <<fs, walk, pos, dirs, files, pfs_inodes, host_to_pfs, cur_ino, fcdc,
                   prev_files, dropped, reads, layout_vars>>

\* An error of the layout: an encoder (290, 296, 308, 321, 327, 339, 345) or
\* the put_blob of the metadata blob (352), which then is not in the store.
FailLayout ==
    /\ pc = "layout"
    /\ pc' = "error"
    /\ UNCHANGED <<fs, walk, pos, dirs, files, pfs_inodes, host_to_pfs, cur_ino, fcdc,
                   prev_files, dropped, oci, reads, layout_vars>>

Next ==
    \/ VisitHardLink
    \/ VisitDir
    \/ VisitOther
    \/ VisitFile
    \/ Finish
    \/ Layout
    \/ FailEntry
    \/ FailWriteChunks
    \/ FailLayout

Spec == Init /\ [][Next]_vars

\* ------------------------------------------------- reading the image back
\* The number of records of the inode table at the head of the blob b.
TableCount(b) == b[1] - 128

TableLen(b) == 1 + TableCount(b) * INODE_WIRE_SIZE

\* The k-th record (k = 0, 1, ...) of the inode table of b.
ImageInode(b, k) ==
    LET at == 1 + k * INODE_WIRE_SIZE
    IN  [ino |-> b[at + 1], mode |-> b[at + 2], offset |-> b[at + 3],
         has_additional |-> b[at + 4], additional_offset |-> b[at + 5]]

ImageIndexes(b) == 0..(TableCount(b) - 1)

\* The directory entry list that starts at the byte offset off of b.
DirListAt(b, off) ==
    [k \in 1..(b[off + 1] - 128) |-> [name |-> b[off + 2 * k], ino |-> b[off + 2 * k + 1]]]

DirListLen(b, off) == 1 + 2 * (b[off + 1] - 128)

\* The n chunks that start at the byte offset off of b, and where they end.
RECURSIVE ChunksFrom(_, _, _)
ChunksFrom(b, off, n) ==
    IF n = 0 THEN [chunks |-> <<>>, end |-> off]
    ELSE LET dl == b[off + 1]
             rest == ChunksFrom(b, off + dl + 3, n - 1)
         IN  [chunks |-> <<[blob |-> [kind |-> "Other",
                                      digest |-> SubSeq(b, off + 2, off + 1 + dl),
                                      offset |-> b[off + dl + 2]],
                            len |-> b[off + dl + 3]]>> \o rest.chunks,
              end |-> rest.end]

\* The chunk list that starts at the byte offset off of b.
ChunkListAt(b, off) == ChunksFrom(b, off + 1, b[off + 1] - 128).chunks

ChunkListLen(b, off) == ChunksFrom(b, off + 1, b[off + 1] - 128).end - off

\* The bytes a chunk names, or <<-1>> when the store cannot supply them.
ReadChunk(store, c) ==
    IF HasBlob(store, c.blob.digest) /\ c.blob.offset + c.len <= Len(OpenBlob(store, c.blob.digest))
    THEN SubSeq(OpenBlob(store, c.blob.digest), c.blob.offset + 1, c.blob.offset + c.len)
    ELSE <<-1>>

ReadChunks(store, cl) == Flatten([k \in 1..Len(cl) |-> ReadChunk(store, cl[k])])

FileInos == {h \in DOMAIN fs.kind : fs.kind[h] = "file"}

\* The chunk lists the image holds for the Ino n.
ImageChunkLists(b, n) ==
    {ChunkListAt(b, ImageInode(b, k).offset) :
        k \in {j \in ImageIndexes(b) : ImageInode(b, j).ino = n /\ ImageInode(b, j).mode = 2}}

Built == pc = "done"

WalkDone == pos = Len(walk)

\* The File accumulators that still exist.
Accumulators == files \o prev_files

CountIno(seq, n) == Cardinality({i \in DOMAIN seq : seq[i].ino = n})

CountReads(h) == Cardinality({i \in DOMAIN reads : reads[i] = h})

ChunkLens(cl) == SumSeq([k \in 1..Len(cl) |-> cl[k].len])

\* ----------------------------------------------------------------- claims

\* C1: after a successful build, for every regular file of the tree, the
\* byte ranges named by the file's chunk references in the image (blob
\* digest, offset, len), concatenated in list order, are exactly the file's
\* content.
C1_RoundTrip ==
    Built =>
        \A h \in FileInos :
            /\ ImageChunkLists(md_buf, host_to_pfs[h]) # {}
            /\ \A cl \in ImageChunkLists(md_buf, host_to_pfs[h]) :
                   ReadChunks(oci, cl) = Content(fs, h)

\* C2: after a successful build the inode table holds exactly one record for
\* each entity of the walk: the Inos of the table are the Inos assigned, each
\* once, and every directory entry's Ino has a record.
C2_OneRecordPerEntity ==
    Built =>
        /\ TableCount(md_buf) = Cardinality(DOMAIN fs.kind)
        /\ \A h \in DOMAIN fs.kind :
               Cardinality({k \in ImageIndexes(md_buf) :
                               ImageInode(md_buf, k).ino = host_to_pfs[h]}) = 1
        /\ \A k \in ImageIndexes(md_buf) :
               /\ ImageInode(md_buf, k).ino \in Range(host_to_pfs)
               /\ ImageInode(md_buf, k).mode = 1 =>
                     \A e \in Range(DirListAt(md_buf, ImageInode(md_buf, k).offset)) :
                         \E j \in ImageIndexes(md_buf) : ImageInode(md_buf, j).ino = e.ino

C4_DirEntries ==
    WalkDone =>
        \A p \in DOMAIN fs.ino :
            fs.kind[fs.ino[p]] = "dir" =>
                LET dl == dirs[fs.ino[p]].dir_list
                IN  /\ Len(dl) = Cardinality(Children(fs, p))
                    /\ \A q \in Children(fs, p) :
                           \E k \in DOMAIN dl :
                               dl[k] = [name |-> FileName(q), ino |-> host_to_pfs[fs.ino[q]]]
                    /\ \A a, b \in DOMAIN dl : a < b => dl[a].name < dl[b].name
                    /\ \A k \in DOMAIN dl : dl[k].ino # 1

\* The walk is over and the root holds two children that are links to one
\* inode.
C4_Witness ==
    /\ WalkDone
    /\ Len(dirs[fs.ino[Root]].dir_list) = 2
    /\ dirs[fs.ino[Root]].dir_list[1].ino = dirs[fs.ino[Root]].dir_list[2].ino

\* C5: after the walk and the final flush, the Pending-File Queue is empty
\* and the lengths of the chunk references of all finalized files add up to
\* the number of bytes read from the regular files.
C5_ByteAccounting ==
    pc = "layout" =>
        /\ prev_files = <<>>
        /\ SumSeq([k \in 1..Len(files) |-> ChunkLens(files[k].chunk_list)])
               = SumSeq([k \in 1..Len(reads) |-> fs.len[reads[k]]])

\* The tree of the two-file scenario: the root holds the regular files a
\* and b, of 2 bytes each.
TwoFiles ==
    /\ walk = <<Root, <<1>>, <<2>>>>
    /\ fs.ino[<<1>>] # fs.ino[<<2>>]
    /\ \A p \in {<<1>>, <<2>>} : fs.kind[fs.ino[p]] = "file" /\ fs.len[fs.ino[p]] = 2

\* The content blobs of the store of a finished build (the last blob put is
\* the metadata blob).
ContentBlobs == SubSeq(oci, 1, Len(oci) - 1)

\* C6: when the 2 bytes of a and the 2 bytes of b, streamed back to back,
\* are exactly one chunk (completed while b is streamed, or at the final
\* flush), the image gives a the one chunk reference {offset 0, len 2} and b
\* the one chunk reference {offset 2, len 2}, both into that chunk's blob.
C6_TwoFiles ==
    (Built /\ TwoFiles /\ ContentBlobs = <<Content(fs, fs.ino[<<1>>]) \o Content(fs, fs.ino[<<2>>])>>) =>
        LET d == Digest(ContentBlobs[1])
            Ref(off) == <<[blob |-> [kind |-> "Other", digest |-> d, offset |-> off], len |-> 2]>>
        IN  /\ ImageChunkLists(md_buf, host_to_pfs[fs.ino[<<1>>]]) = {Ref(0)}
            /\ ImageChunkLists(md_buf, host_to_pfs[fs.ino[<<2>>]]) = {Ref(2)}

\* C7: in the inode table of the image, record 0 is the walk root (Ino 1,
\* a directory) and record i has Ino i + 1.
C7_TableOrder ==
    Built =>
        /\ ImageInode(md_buf, 0).ino = 1
        /\ ImageInode(md_buf, 0).mode = 1
        /\ \A k \in ImageIndexes(md_buf) : ImageInode(md_buf, k).ino = k + 1

\* The index in the walk of the first entry with host inode h.
FirstVisit(h) ==
    CHOOSE i \in 1..Len(walk) :
        fs.ino[walk[i]] = h /\ \A j \in 1..(i - 1) : fs.ino[walk[j]] # h

HostsUpTo(k) == {fs.ino[walk[i]] : i \in 1..k}

\* The entries whose host inode the loop has looked up (a panic leaves the
\* loop inside an entry).
Taken == IF pc = "panic" /\ pos < Len(walk) THEN pos + 1 ELSE pos

\* C8: the walk root has Ino 1; every host inode seen so far has one Ino,
\* the rank of its first visit among the distinct host inodes (so it never
\* changes), and the Inos assigned are exactly 1..k for the k distinct host
\* inodes seen so far.
C8_InoAssignment ==
    /\ DOMAIN host_to_pfs = HostsUpTo(Taken)
    /\ \A h \in DOMAIN host_to_pfs : host_to_pfs[h] = Cardinality(HostsUpTo(FirstVisit(h)))
    /\ Range(host_to_pfs) = 1..Cardinality(DOMAIN host_to_pfs)
    /\ pos >= 1 => host_to_pfs[fs.ino[Root]] = 1
    /\ cur_ino = Cardinality(HostsUpTo(pos)) + 1

\* The walk is over a tree with a hard link: three entries, two inodes.
C8_Witness ==
    /\ WalkDone
    /\ Len(walk) = 3
    /\ Cardinality(DOMAIN host_to_pfs) = 2
    /\ cur_ino = 3

\* C9: the metadata blob is the inode table, then the payload of every
\* directory in ascending Ino order, then the payload of every file in the
\* order of the file records; the offset of each record is the position at
\* which its entry list or chunk list begins, the offset of its extended
\* metadata the position right behind that list; the payloads follow one
\* another without gap or overlap from the end of the table to the end of
\* the blob, and a directory's payload is its entry list.
C9_Layout ==
    Built =>
        LET b == md_buf
            rec(k) == ImageInode(b, k)
            dirIdx == SortedSeq({k \in ImageIndexes(b) : rec(k).mode = 1})
            fileIdx == SortedSeq({k \in ImageIndexes(b) : rec(k).mode = 2})
            payload == dirIdx \o fileIdx
            ListLen(k) == IF rec(k).mode = 1 THEN DirListLen(b, rec(k).offset)
                          ELSE ChunkListLen(b, rec(k).offset)
            Extent(k) == ListLen(k) + IF rec(k).has_additional = 1 THEN 2 ELSE 0
        IN  /\ \A x, y \in DOMAIN dirIdx : x < y => rec(dirIdx[x]).ino < rec(dirIdx[y]).ino
            /\ rec(payload[1]).offset = TableLen(b)
            /\ \A x \in 1..(Len(payload) - 1) :
                   rec(payload[x + 1]).offset = rec(payload[x]).offset + Extent(payload[x])
            /\ rec(payload[Len(payload)]).offset + Extent(payload[Len(payload)]) = Len(b)
            /\ \A x \in DOMAIN payload :
                   rec(payload[x]).has_additional = 1 =>
                       /\ rec(payload[x]).additional_offset
                              = rec(payload[x]).offset + ListLen(payload[x])
                       /\ \E h \in fs.xattr :
                              /\ host_to_pfs[h] = rec(payload[x]).ino
                              /\ SubSeq(b, rec(payload[x]).additional_offset + 1,
                                        rec(payload[x]).additional_offset + 2)
                                     = CborAdditional([xattrs_of |-> h])
            /\ \A x \in DOMAIN dirIdx :
                   \E h \in DOMAIN dirs :
                       /\ dirs[h].ino = rec(dirIdx[x]).ino
                       /\ DirListAt(b, rec(dirIdx[x]).offset) = dirs[h].dir_list
                       /\ (rec(dirIdx[x]).has_additional = 1) = (h \in fs.xattr)

\* An image with two directories and a file, one of them with extended
\* metadata.
C9_Witness ==
    /\ Built
    /\ Cardinality({k \in ImageIndexes(md_buf) : ImageInode(md_buf, k).mode = 1}) = 2
    /\ \E k \in ImageIndexes(md_buf) : ImageInode(md_buf, k).mode = 2
    /\ \E k \in ImageIndexes(md_buf) : ImageInode(md_buf, k).has_additional = 1

\* C10: the size computed before any payload is rendered, from the number
\* of records to come, is the length of the inode table serialized at the
\* end, and the assertion on the table's length never fails.
C10_TableSize ==
    /\ Built =>
           /\ inodes_serial_size = inode_encoded_size(Len(pfs_inodes))
           /\ Len(CborInodes(pfs_inodes)) = inodes_serial_size
           /\ TableCount(md_buf) = Len(pfs_inodes)
           /\ SubSeq(md_buf, 1, inodes_serial_size) = CborInodes(pfs_inodes)
    /\ ~(pc = "panic" /\ md_buf # <<>>)

\* The table of an image with a directory, a file and another entity.
C10_Witness ==
    /\ Built
    /\ \A m \in {1, 2, 3} : \E k \in ImageIndexes(md_buf) : ImageInode(md_buf, k).mode = m

\* The contents of the files of the Pending-File Queue, in queue order.
PendingBytes == Flatten([k \in 1..Len(prev_files) |-> Content(fs, prev_files[k].md.ino)])

PendingSize == SumSeq([k \in 1..Len(prev_files) |-> prev_files[k].md.len])

\* C11: between two walk entries, the bytes the chunker has buffered and
\* not yet emitted are exactly the contents of the pending files, in queue
\* order (so that the next chunk to complete is those contents followed by
\* a prefix of the file then streamed).
C11_ChunkComposition == pc = "walk" => fcdc.buf = PendingBytes

\* C12: at the end of the walk the flush yields chunks if and only if the
\* Pending-File Queue is not empty, what it yields is as long as the pending
\* files together, and none of the three assertions behind finish() fails.
C12_EndAssertions ==
    /\ (pc = "walk" /\ WalkDone) =>
           /\ (fcdc.buf # <<>>) <=> (prev_files # <<>>)
           /\ Len(fcdc.buf) = PendingSize
    /\ ~(pc = "panic" /\ WalkDone /\ md_buf = <<>>)

\* C13: when a batch of chunks completes while the file F is streamed with
\* the pending queue p1..pn, every pi gets the one chunk reference {first
\* chunk's blob, offset size(p1) + ... + size(p(i-1)), len size(pi)} and
\* moves to the finalized files in queue order, the queue becomes empty, and
\* F is among the finalized files with the chunk list {first chunk's blob,
\* offset used, len chunk length - used} followed by every further chunk of
\* the batch at offset 0 with its full length.
C13_Attribution ==
    [][(pc = "walk" /\ pos < Len(walk) /\ Len(oci') > Len(oci)) =>
          LET batch == SubSeq(oci', Len(oci) + 1, Len(oci'))
              Ref(data, off, len) ==
                  [blob |-> [kind |-> "Other", digest |-> Digest(data), offset |-> off],
                   len  |-> len]
              used(i) == SumSeq([j \in 1..(i - 1) |-> prev_files[j].md.len])
              moved == [i \in 1..Len(prev_files) |->
                          [prev_files[i] EXCEPT !.chunk_list =
                              <<Ref(batch[1], used(i), prev_files[i].md.len)>>]]
              total == used(Len(prev_files) + 1)
              ofF == <<Ref(batch[1], total, Len(batch[1]) - total)>>
                     \o [k \in 1..(Len(batch) - 1) |-> Ref(batch[k + 1], 0, Len(batch[k + 1]))]
          IN  /\ prev_files' = <<>>
              /\ Len(files') >= Len(files) + Len(prev_files)
              /\ SubSeq(files', 1, Len(files) + Len(prev_files)) = files \o moved
              /\ \E i \in DOMAIN files' :
                     files'[i].ino = cur_ino /\ files'[i].chunk_list = ofF]_vars

\* C14: a walk entry whose host inode is already resolved appends the one
\* Directory Entry (its name, the existing Ino) to its parent's entry list
\* and changes nothing else: not the next Ino, the host-to-Ino map, the
\* chunker, the store, the Pending-File Queue, the finalized files, the set
\* of directories or the Inode Records produced (unless a step of it fails,
\* which ends the build).
C14_HardLinkFrame ==
    [][(InLoop /\ cur_ino # 1 /\ Md.ino \in DOMAIN host_to_pfs /\ pc' # "error") =>
          /\ dirs' = [dirs EXCEPT ![ParentIno].dir_list =
                         Append(@, [name |-> FileName(Entry), ino |-> host_to_pfs[Md.ino]])]
          /\ pos' = pos + 1
          /\ UNCHANGED <<cur_ino, host_to_pfs, fcdc, oci, reads, prev_files, files, dropped,
                         pfs_inodes, pc, layout_vars>>]_vars

\* The second link to a pending file has just been processed: the file's
\* bytes are still buffered and its parent holds both entries.
C14_Witness ==
    /\ pc = "walk" /\ pos = 3
    /\ fs.ino[walk[2]] = fs.ino[walk[3]]
    /\ prev_files # <<>> /\ fcdc.buf # <<>>
    /\ Len(dirs[fs.ino[Root]].dir_list) = 2
    /\ cur_ino = 3

IsPrefix(a, b) == Len(a) <= Len(b) /\ SubSeq(b, 1, Len(a)) = a

\* The contents of the distinct regular files among the first k walk
\* entries, in walk order.
StreamUpTo(k) ==
    Flatten([i \in 1..k |->
               IF fs.kind[fs.ino[walk[i]]] = "file" /\ FirstVisit(fs.ino[walk[i]]) = i
               THEN Content(fs, fs.ino[walk[i]])
               ELSE <<>>])

Stream == StreamUpTo(Len(walk))

\* C15: a failed step ends the build: nothing happens after the error, no
\* Rootfs is returned and the store holds content chunks only; the metadata
\* blob is in the store once, as the last blob, only when the build has
\* succeeded, after the walk and the final flush.
C15_AbortOnFailure ==
    /\ [](/\ pc # "done" =>
                /\ rootfs = <<>>
                /\ IsPrefix(Flatten(oci), Stream)
          /\ pc = "done" =>
                /\ pos = Len(walk) /\ fcdc = FastCDCWrapperNew
                /\ rootfs = <<[metadatas |-> <<[offset |-> 0, kind |-> "Other",
                                                digest |-> Digest(md_buf)]>>]>>
                /\ oci # <<>> /\ oci[Len(oci)] = md_buf
                /\ Cardinality({i \in DOMAIN oci : oci[i] = md_buf}) = 1
                /\ IsPrefix(Flatten(ContentBlobs), Stream))
    /\ [][/\ pc = "error" => UNCHANGED vars
          /\ pc' = "error" => pos' = pos /\ rootfs' = <<>> /\ md_buf' = <<>>]_vars

\* put_blob has failed in the middle of the walk, after a chunk was stored.
C15_Witness == pc = "error" /\ pos < Len(walk) /\ oci # <<>>

\* The chunk references the builder has produced.
RefsOf(fl) == UNION {Range(fl[i].chunk_list) : i \in DOMAIN fl}

\* C16: every chunk reference the builder has produced (for a pending file,
\* for the file streamed, at the final flush) names a content blob of the
\* store and lies inside it, offset + len <= the blob's length; the
\* subtraction first_chunk.len - used never underflows.
C16_RefsInside ==
    /\ \A c \in RefsOf(files) \cup RefsOf(prev_files) \cup RefsOf(dropped) :
           /\ HasBlob(oci, c.blob.digest)
           /\ c.len >= 0
           /\ c.blob.offset + c.len <= Len(OpenBlob(oci, c.blob.digest))
    /\ ~(pc = "panic" /\ pos < Len(walk))

\* The bytes written to the chunker so far.
Written == Flatten([k \in 1..Len(reads) |-> Content(fs, reads[k])])

\* C17: the bytes written to the chunker are the contents of the distinct
\* regular files visited, each once, in walk order; the chunks stored and
\* the bytes still buffered are those bytes in that order; and after a
\* successful build the content chunks of the store, in the order they
\* were put, concatenate to the whole stream.
C17_StreamConservation ==
    /\ Written = StreamUpTo(Taken)
    /\ pc = "walk" => Flatten(oci) \o fcdc.buf = Written
    /\ pc = "layout" => Flatten(oci) = Stream
    /\ Built => Flatten(ContentBlobs) = Stream

\* A finished build of two regular files whose bytes went to the store as
\* two chunks.
C17_Witness ==
    /\ Built
    /\ Len(reads) = 2
    /\ Len(ContentBlobs) = 2

====
